---- MODULE Spec2Model ----
(***************************************************************************)
(* cyli: discovery of Cypress test files, configuration of the script      *)
(* runner, and the `test` command with its interactive runner app.         *)
(*                                                                         *)
(* Specifications of this module:                                          *)
(*   SpecWalk    find_file_upwards of utils/files.py                       *)
(*   SpecRoot    find_project_root of utils/files.py                       *)
(*   SpecConfig  load_config / get_command / find_test_folder              *)
(*   Spec        the `test` command and TestRunnerApp                      *)
(***************************************************************************)
EXTENDS Integers, Sequences, FiniteSets, TLC

VARIABLES
    \* ---- utils/files.py: the directory tree and the walk ----
    parent,          \* parent[d]: the parent directory of d (root is its own parent)
    hasFile,         \* the directories that contain `filename`
    start_path,      \* the (resolved) start directory
    current,         \* find_file_upwards: local `current`
    ff_pc,           \* "loop" | "done"
    ff_result        \* the directory whose file is returned, or NotFound

walkVars == <<parent, hasFile, start_path, current, ff_pc, ff_result>>

VARIABLES
    \* ---- utils/files.py: find_project_root ----
    entries,         \* entries[d]: the names that exist in directory d
    marker_files,    \* the argument marker_files (None or a list of names)
    pr_current,      \* find_project_root: local `current`
    pr_pc,           \* "loop" | "done"
    pr_result        \* the directory returned, or NotFound

rootVars == <<entries, marker_files, pr_current, pr_pc, pr_result>>

VARIABLES
    \* ---- config.py / core/cypress.py: inputs and results ----
    cfg_found,       \* find_config_file() found a file that exists
    cfg_data,        \* the "script_runner" object of the parsed JSON file
    fs,              \* the project's folders and files, as discovery sees them
    config,          \* the result of load_config (a Config or the ValueError)
    cfg_pc,          \* "init" | "loaded" | "failed"
    call             \* the last library call made on the loaded config / fs

cfgVars == <<cfg_found, cfg_data, fs, config, cfg_pc, call>>

VARIABLES
    \* ---- commands/test.py: the `test` command and TestRunnerApp ----
    pc,              \* "start" | "type_prompt" | "runner" | "exited"
    sel_type,        \* --type, then the selected type ("" is None)
    dry_run,         \* --dry-run
    list_only,       \* --list-only
    exec_exists,     \* the package manager's executable can be found
    exit_code,       \* the exit code of the command, NoCode while it runs
    exit_cause,      \* which exit of test() was taken
    cancelled,       \* the user cancelled before selecting any test file
    output,          \* what --list-only / --dry-run printed
    test_files,      \* TestRunnerApp.test_files
    base_cmd,        \* TestRunnerApp.base_cmd
    current_process, \* TestRunnerApp.current_process: index in procs, 0 is None
    worker,          \* the worker of the last selection
    procs,           \* the child processes spawned so far
    selections,      \* the test files selected so far, in order
    status_bar,      \* the text of #status-bar
    seen             \* what the runner reported so far

cmdVars == <<pc, sel_type, dry_run, list_only, exec_exists, exit_code,
             exit_cause, cancelled, output, test_files, base_cmd,
             current_process, worker, procs, selections, status_bar, seen>>

vars == <<walkVars, rootVars, cfgVars, cmdVars>>

----------------------------------------------------------------------------
(* Bounds *)
MaxDirs == 4
MaxFiles == 2
MaxRuns == 2
MaxLines == 1
\* The exit codes a child process ends with on its own.
ExitCodes == {0, 1, 2}

----------------------------------------------------------------------------
(* utils/files.py: the directory tree *)

Dirs == 0 .. (MaxDirs - 1)
RootDir == 0
NotFound == -1

\* Every directory tree over Dirs: the root is its own parent
\* (Path("/").parent == Path("/")), any other directory hangs below an
\* earlier one.
Trees == { p \in [Dirs -> Dirs] :
             /\ p[RootDir] = RootDir
             /\ \A d \in Dirs \ {RootDir} : p[d] < d }

WalkIdle ==
    /\ parent = [d \in Dirs |-> RootDir]
    /\ hasFile = {}
    /\ start_path = RootDir
    /\ current = RootDir
    /\ ff_pc = "idle"
    /\ ff_result = NotFound

----------------------------------------------------------------------------
(* config.py *)

\* A Python dict is a function on its set of keys; {} is the empty one.
EmptyDict == [k \in {} |-> ""]

\* An optional value: a key that may be missing from a dict, an argument
\* that may be None.
None(dflt) == [given |-> FALSE, value |-> dflt]
Some(v) == [given |-> TRUE, value |-> v]

\* find_project_root's variables in a run that does not call it.
RootIdle ==
    /\ entries = [d \in Dirs |-> {}]
    /\ marker_files = None(<< >>)
    /\ pr_current = RootDir
    /\ pr_pc = "idle"
    /\ pr_result = NotFound

PACKAGE_MANAGERS ==
    [npm  |-> [command |-> "npm",  run_prefix |-> "run"],
     yarn |-> [command |-> "yarn", run_prefix |-> ""],
     pnpm |-> [command |-> "pnpm", run_prefix |-> "run"],
     bun  |-> [command |-> "bun",  run_prefix |-> "run"]]

\* ScriptRunnerConfig's default_factory for `scripts`.
DefaultScripts ==
    [test |-> [component |-> "coverage:component", e2e |-> "coverage:e2e"]]

\* What raising ValueError leaves the caller with: no Config.
ConfigError ==
    [ok |-> FALSE, command |-> "", run_prefix |-> "", scripts |-> EmptyDict]

ScriptRunnerConfig(command, run_prefix, scripts) ==
    [ok |-> TRUE, command |-> command, run_prefix |-> run_prefix,
     scripts |-> scripts]

\* Config(): every field at its default.
DefaultConfig == ScriptRunnerConfig("npm", "run", DefaultScripts)

\* Python truthiness of a dict and of a string.
TruthyDict(d) == DOMAIN d # {}
TruthyStr(s) == s # ""

\* As for_package_manager, with the custom scripts dropped.
for_package_manager_default_scripts(name, scripts) ==
    IF name \notin DOMAIN PACKAGE_MANAGERS
       THEN ConfigError
       ELSE ScriptRunnerConfig(
                PACKAGE_MANAGERS[name].command,
                PACKAGE_MANAGERS[name].run_prefix,
                DefaultScripts)

\* scripts=scripts or cls().scripts
for_package_manager(name, scripts) ==
    IF name \notin DOMAIN PACKAGE_MANAGERS
       THEN ConfigError
       ELSE ScriptRunnerConfig(
                PACKAGE_MANAGERS[name].command,
                PACKAGE_MANAGERS[name].run_prefix,
                IF scripts.given /\ TruthyDict(scripts.value)
                   THEN scripts.value ELSE DefaultScripts)

\* runner_data.get(key, default)
Get(opt, dflt) == IF opt.given THEN opt.value ELSE dflt

\* Config.from_dict, on runner_data = data.get("script_runner", {}).
from_dict(runner_data) ==
    IF runner_data.package_manager.given
       THEN for_package_manager(runner_data.package_manager.value,
                                runner_data.scripts)
       ELSE ScriptRunnerConfig(Get(runner_data.command, "npm"),
                               Get(runner_data.run_prefix, "run"),
                               Get(runner_data.scripts, DefaultScripts))

\* load_config: `found` is "config_path is not None and config_path.exists()".
load_config(found, runner_data) ==
    IF ~found THEN DefaultConfig ELSE from_dict(runner_data)

\* The result of a call that returns a command or raises ValueError.
CmdOk(cmd) == [err |-> "", cmd |-> cmd]
CmdErr(e) == [err |-> e, cmd |-> << >>]

\* As get_command, with the run prefix always emitted.
get_command_always_prefix(cfg, category, script_key) ==
    IF category \notin DOMAIN cfg.scripts
       THEN CmdErr("Unknown category")
       ELSE LET category_scripts == cfg.scripts[category]
            IN  IF \/ script_key \notin DOMAIN category_scripts
                   \/ ~TruthyStr(category_scripts[script_key])
                   THEN CmdErr("Unknown script")
                   ELSE CmdOk(<<cfg.command, cfg.run_prefix,
                                category_scripts[script_key]>>)

\* ScriptRunnerConfig.get_command. `category_scripts.get(script_key)` is
\* None for a missing key, and `not script` holds of None and of "".
get_command(cfg, category, script_key) ==
    IF category \notin DOMAIN cfg.scripts
       THEN CmdErr("Unknown category")
       ELSE LET category_scripts == cfg.scripts[category]
            IN  IF \/ script_key \notin DOMAIN category_scripts
                   \/ ~TruthyStr(category_scripts[script_key])
                   THEN CmdErr("Unknown script")
                   ELSE IF TruthyStr(cfg.run_prefix)
                           THEN CmdOk(<<cfg.command, cfg.run_prefix,
                                        category_scripts[script_key]>>)
                           ELSE CmdOk(<<cfg.command,
                                        category_scripts[script_key]>>)

get_test_command(cfg, test_type) == get_command(cfg, "test", test_type)

----------------------------------------------------------------------------
(* core/cypress.py *)

CYPRESS_FOLDER == "cypress"

TEST_FOLDERS == [e2e |-> "e2e", component |-> "component"]

\* A path below the project root is the sequence of its parts.
NoPath == None(<< >>)
CypressDir == <<CYPRESS_FOLDER>>
E2eDir == <<CYPRESS_FOLDER, "e2e">>
ComponentDir == <<CYPRESS_FOLDER, "component">>
SrcDir == <<"src">>
ScannedDirs == {E2eDir, ComponentDir, SrcDir}

\* The suffixes list_test_files scans for, in the order of its loop.
SpecExts == <<"ts", "js", "tsx", "jsx">>
\* Names are sequences of character codes, which compare as str does.
Chr == [dash |-> 45, dot |-> 46, slash |-> 47, a |-> 97, b |-> 98,
        c |-> 99, j |-> 106, s |-> 115, t |-> 116, x |-> 120, y |-> 121]
ExtChars == [ts |-> <<Chr.t, Chr.s>>, js |-> <<Chr.j, Chr.s>>,
             tsx |-> <<Chr.t, Chr.s, Chr.x>>,
             jsx |-> <<Chr.j, Chr.s, Chr.x>>]
Exts == DOMAIN ExtChars

\* The part of the pattern "*.cy.<ext>" after the star.
Suffix(ext) == <<Chr.dot, Chr.c, Chr.y, Chr.dot>> \o ExtChars[ext]

EndsWith(name, suffix) ==
    /\ Len(name) >= Len(suffix)
    /\ SubSeq(name, Len(name) - Len(suffix) + 1, Len(name)) = suffix

\* The match of a name against the last part of the glob pattern; the star
\* matches any run of characters, the empty one included.
Matches(name, ext) == EndsWith(name, Suffix(ext))

\* An entry below a scanned folder is [rel, is_dir]: its path relative to the
\* folder as the sequence of its parts, and whether it is a directory.  The
\* path glob yields for it is the folder joined with `rel`.
FilePath(dir, e) == [dir |-> dir, rel |-> e.rel]

RECURSIVE SeqLess(_, _)
\* str.__lt__: the order of the first differing character, a proper prefix
\* first.
SeqLess(s, t) ==
    IF t = << >> THEN FALSE
    ELSE IF s = << >> THEN TRUE
    ELSE IF Head(s) # Head(t) THEN Head(s) < Head(t)
    ELSE SeqLess(Tail(s), Tail(t))

RECURSIVE PartsLess(_, _)
\* The order of two lists of parts: that of the first differing part, a
\* proper prefix first.
PartsLess(p, q) ==
    IF q = << >> THEN FALSE
    ELSE IF p = << >> THEN TRUE
    ELSE IF Head(p) # Head(q) THEN SeqLess(Head(p), Head(q))
    ELSE PartsLess(Tail(p), Tail(q))

\* Path.__lt__ compares the parts of the two paths; the paths of one glob
\* share the parts of the folder.
PathLess(p, q) == PartsLess(p.rel, q.rel)

RECURSIVE SetToSeq(_)
\* The order in which glob yields its matches is the directory's.
SetToSeq(S) ==
    IF S = {} THEN << >>
    ELSE LET x == CHOOSE y \in S : TRUE IN <<x>> \o SetToSeq(S \ {x})

RECURSIVE Insert(_, _)
Insert(x, s) ==
    IF s = << >> THEN <<x>>
    ELSE IF PathLess(x, Head(s)) THEN <<x>> \o s
    ELSE <<Head(s)>> \o Insert(x, Tail(s))

RECURSIVE sorted(_)
sorted(s) == IF s = << >> THEN << >> ELSE Insert(Head(s), sorted(Tail(s)))

\* The directories that lead from the folder to an entry.
Ancestors(e) ==
    { [rel |-> SubSeq(e.rel, 1, k), is_dir |-> TRUE] :
         k \in 1 .. (Len(e.rel) - 1) }

\* Everything "**" walks below a folder, given the entries that are in it.
Walk(S) == S \cup UNION { Ancestors(e) : e \in S }

\* As Glob, yielding regular files only.
GlobFiles(fsys, folder, ext) ==
    SetToSeq({ FilePath(folder, e) :
                  e \in { g \in Walk(fsys.files[folder]) :
                             ~g.is_dir /\ Matches(g.rel[Len(g.rel)], ext) } })

\* folder.glob("**/*.cy.<ext>"): every entry below the folder whose name
\* matches, a file or a directory.
Glob(fsys, folder, ext) ==
    SetToSeq({ FilePath(folder, e) :
                  e \in { g \in Walk(fsys.files[folder]) :
                             Matches(g.rel[Len(g.rel)], ext) } })

\* find_project_root() is abstracted to its outcome: fsys.root says whether
\* a project root was found; the folders are those below it.
find_cypress_folder(fsys) ==
    IF ~fsys.root THEN NoPath
    ELSE IF CypressDir \in fsys.dirs THEN Some(CypressDir) ELSE NoPath

\* The result of a call that returns a folder or raises ValueError.
FolderOk(f) == [err |-> "", folder |-> f]
FolderErr(e) == [err |-> e, folder |-> NoPath]

\* As find_test_folder, without the check of the test type.
find_test_folder_unchecked(test_type, fsys) ==
    LET cypress_folder == find_cypress_folder(fsys)
    IN  IF ~cypress_folder.given THEN FolderOk(NoPath)
        ELSE LET test_folder == cypress_folder.value \o <<test_type>>
             IN  IF test_folder \in fsys.dirs
                    THEN FolderOk(Some(test_folder))
                    ELSE FolderOk(NoPath)

find_test_folder(test_type, fsys) ==
    IF test_type \notin DOMAIN TEST_FOLDERS
       THEN FolderErr("Unknown test type")
       ELSE LET cypress_folder == find_cypress_folder(fsys)
            IN  IF ~cypress_folder.given THEN FolderOk(NoPath)
                ELSE LET test_folder ==
                             cypress_folder.value \o <<TEST_FOLDERS[test_type]>>
                     IN  IF test_folder \in fsys.dirs
                            THEN FolderOk(Some(test_folder))
                            ELSE FolderOk(NoPath)

\* The result of a call that returns a list of files or raises ValueError.
FilesOk(l) == [err |-> "", files |-> l]
FilesErr(e) == [err |-> e, files |-> << >>]

list_test_files(test_type, fsys) ==
    LET test_folder == find_test_folder(test_type, fsys)
    IN  IF test_folder.err # "" THEN FilesErr(test_folder.err)
        ELSE IF ~test_folder.folder.given THEN FilesOk(<< >>)
        ELSE LET d == test_folder.folder.value
             IN  FilesOk(sorted(Glob(fsys, d, SpecExts[1])
                                \o Glob(fsys, d, SpecExts[2])
                                \o Glob(fsys, d, SpecExts[3])
                                \o Glob(fsys, d, SpecExts[4])))

find_src_folder(fsys) ==
    IF ~fsys.root THEN NoPath
    ELSE IF SrcDir \in fsys.dirs THEN Some(SrcDir) ELSE NoPath

list_src_test_files(fsys) ==
    LET src_folder == find_src_folder(fsys)
    IN  IF ~src_folder.given THEN << >>
        ELSE sorted(Glob(fsys, src_folder.value, "ts"))

\* As get_test_files, with the files of src/ first.
get_test_files_src_first(test_type, fsys) ==
    LET cypress_tests == list_test_files(test_type, fsys)
    IN  IF cypress_tests.err # "" THEN cypress_tests
        ELSE FilesOk((IF test_type = "component"
                         THEN list_src_test_files(fsys) ELSE << >>)
                     \o cypress_tests.files)

\* commands/test.py: get_test_files
get_test_files(test_type, fsys) ==
    LET cypress_tests == list_test_files(test_type, fsys)
    IN  IF cypress_tests.err # "" THEN cypress_tests
        ELSE FilesOk(cypress_tests.files
                     \o (IF test_type = "component"
                            THEN list_src_test_files(fsys) ELSE << >>))

\* A file system: whether a project root is found, the directories that
\* exist below it, and the files below each scanned folder.
MkFS(root, dirs, e2e, component, src) ==
    [root |-> root, dirs |-> dirs,
     files |-> [d \in ScannedDirs |->
                   IF d = E2eDir THEN e2e
                   ELSE IF d = ComponentDir THEN component ELSE src]]

\* The file <stem>.cy.<ext>, or <stem>.<ext>, in the folder itself.
F(stem, cy, ext) ==
    [rel |-> <<stem \o (IF cy THEN Suffix(ext)
                              ELSE <<Chr.dot>> \o ExtChars[ext])>>,
     is_dir |-> FALSE]

StemA == <<Chr.a>>
StemB == <<Chr.b>>

\* The file systems the configuration checks and the command run on.
SampleFileSystems ==
    { MkFS(FALSE, {}, {}, {}, {}),
      MkFS(TRUE, {SrcDir}, {}, {}, {F(StemA, TRUE, "ts")}),
      MkFS(TRUE, {CypressDir, E2eDir},
           {F(StemA, TRUE, "ts"), F(StemB, TRUE, "js"), F(StemA, FALSE, "ts")},
           {}, {}),
      MkFS(TRUE, {CypressDir, E2eDir, ComponentDir, SrcDir},
           {F(StemA, TRUE, "tsx")},
           {F(StemB, TRUE, "jsx"), F(StemA, TRUE, "js")},
           {F(StemA, TRUE, "ts"), F(StemA, TRUE, "js")}) }

----------------------------------------------------------------------------
(* commands/test.py: command lines *)

NoFile == [dir |-> << >>, rel |-> << >>]

\* A token of a command line: a literal string or str(path) of a test file.
Tok(s) == [s |-> s, p |-> NoFile]
PathTok(f) == [s |-> "", p |-> f]
RECURSIVE Toks(_)
Toks(strs) == IF strs = << >> THEN << >>
              ELSE <<Tok(Head(strs))>> \o Toks(Tail(strs))

\* run_test: cmd = self.base_cmd + ["--", "--", "--spec", test_file]
RunCommand(base, test_file) ==
    base \o <<Tok("--"), Tok("--"), Tok("--spec"), PathTok(test_file)>>

\* test(): " ".join(base_cmd) + ' -- -- --spec "<test_file>"', as the
\* tokens the printed line consists of.
DryRunCommand(base) ==
    base \o <<Tok("--"), Tok("--"), Tok("--spec"), Tok("\"<test_file>\"")>>

NoCode == -1000          \* returncode is None / the command has not exited
SIGTERM == 15

NoWorker ==
    [state |-> "none", cmd |-> << >>, test_file |-> NoFile, process |-> 0]

CmdIdle ==
    /\ pc = "idle"
    /\ sel_type = ""
    /\ dry_run = FALSE
    /\ list_only = FALSE
    /\ exec_exists = FALSE
    /\ exit_code = NoCode
    /\ exit_cause = ""
    /\ cancelled = FALSE
    /\ output = << >>
    /\ test_files = << >>
    /\ base_cmd = << >>
    /\ current_process = 0
    /\ worker = NoWorker
    /\ procs = << >>
    /\ selections = << >>
    /\ status_bar = ""
    /\ seen = {}

----------------------------------------------------------------------------
(* The inputs of load_config and the calls on its result *)

OptStr(S) == {None("")} \cup {Some(v) : v \in S}

\* `scripts` objects a cyli.json may give.
ScriptMaps ==
    { EmptyDict,
      [test |-> EmptyDict],
      [test |-> [e2e |-> "cy:e2e"]],
      [test |-> [unit |-> "test:unit", e2e |-> ""]],
      [build |-> [app |-> "build:app"]] }

\* The "script_runner" objects a cyli.json may give.
RunnerData ==
    [package_manager : OptStr({"npm", "yarn", "pnpm", "bun", "pip"}),
     command : OptStr({"deno"}),
     run_prefix : OptStr({"", "task"}),
     scripts : {None(EmptyDict)} \cup {Some(s) : s \in ScriptMaps}]

\* data.get("script_runner", {}) of a file without the key.
NoRunnerData ==
    [package_manager |-> None(""), command |-> None(""),
     run_prefix |-> None(""), scripts |-> None(EmptyDict)]

Categories == {"test", "build", "lint"}
ScriptKeys == {"e2e", "component", "unit", "app"}
TestTypes == {"e2e", "component", "unit"}

NoCall ==
    [op |-> "none", category |-> "", key |-> "", err |-> "", cmd |-> << >>,
     folder |-> NoPath, files |-> << >>]

CfgIdle ==
    /\ cfg_found = FALSE
    /\ cfg_data = NoRunnerData
    /\ fs = MkFS(FALSE, {}, {}, {}, {})
    /\ config = ConfigError
    /\ cfg_pc = "idle"
    /\ call = NoCall

InitConfig ==
    /\ WalkIdle
    /\ RootIdle
    /\ CmdIdle
    /\ \/ cfg_found = FALSE /\ cfg_data = NoRunnerData
       \/ cfg_found = TRUE /\ cfg_data \in RunnerData
    /\ fs \in SampleFileSystems
    /\ config = ConfigError
    /\ cfg_pc = "init"
    /\ call = NoCall

\* config = load_config()
LoadConfig ==
    /\ cfg_pc = "init"
    /\ config' = load_config(cfg_found, cfg_data)
    /\ cfg_pc' = IF config'.ok THEN "loaded" ELSE "failed"
    /\ UNCHANGED <<cfg_found, cfg_data, fs, call>>
    /\ UNCHANGED walkVars
    /\ UNCHANGED rootVars
    /\ UNCHANGED cmdVars

\* config.script_runner.get_command(category, script_key)
CallGetCommand ==
    /\ cfg_pc = "loaded"
    /\ \E category \in Categories, script_key \in ScriptKeys :
          LET r == get_command(config, category, script_key)
          IN  call' = [NoCall EXCEPT !.op = "get_command",
                                     !.category = category,
                                     !.key = script_key,
                                     !.err = r.err, !.cmd = r.cmd]
    /\ UNCHANGED <<cfg_found, cfg_data, fs, config, cfg_pc>>
    /\ UNCHANGED walkVars
    /\ UNCHANGED rootVars
    /\ UNCHANGED cmdVars

\* config.script_runner.get_test_command(test_type)
CallGetTestCommand ==
    /\ cfg_pc = "loaded"
    /\ \E test_type \in TestTypes :
          LET r == get_test_command(config, test_type)
          IN  call' = [NoCall EXCEPT !.op = "get_test_command",
                                     !.category = "test",
                                     !.key = test_type,
                                     !.err = r.err, !.cmd = r.cmd]
    /\ UNCHANGED <<cfg_found, cfg_data, fs, config, cfg_pc>>
    /\ UNCHANGED walkVars
    /\ UNCHANGED rootVars
    /\ UNCHANGED cmdVars

\* find_test_folder(test_type)
CallFindTestFolder ==
    /\ cfg_pc = "loaded"
    /\ \E test_type \in TestTypes :
          LET r == find_test_folder(test_type, fs)
          IN  call' = [NoCall EXCEPT !.op = "find_test_folder",
                                     !.key = test_type,
                                     !.err = r.err, !.folder = r.folder]
    /\ UNCHANGED <<cfg_found, cfg_data, fs, config, cfg_pc>>
    /\ UNCHANGED walkVars
    /\ UNCHANGED rootVars
    /\ UNCHANGED cmdVars

\* list_test_files(test_type)
CallListTestFiles ==
    /\ cfg_pc = "loaded"
    /\ \E test_type \in TestTypes :
          LET r == list_test_files(test_type, fs)
          IN  call' = [NoCall EXCEPT !.op = "list_test_files",
                                     !.key = test_type,
                                     !.err = r.err, !.files = r.files]
    /\ UNCHANGED <<cfg_found, cfg_data, fs, config, cfg_pc>>
    /\ UNCHANGED walkVars
    /\ UNCHANGED rootVars
    /\ UNCHANGED cmdVars

NextConfig ==
    \/ LoadConfig
    \/ CallGetCommand
    \/ CallGetTestCommand
    \/ CallFindTestFolder
    \/ CallListTestFiles

SpecConfig == InitConfig /\ [][NextConfig]_vars

----------------------------------------------------------------------------
(* C7 *)

IsCommandCall == call.op \in {"get_command", "get_test_command"}

\* The script name the last command call looked up, when its category and
\* key are both present.
KeyPresent ==
    /\ call.category \in DOMAIN config.scripts
    /\ call.key \in DOMAIN config.scripts[call.category]
ScriptName == config.scripts[call.category][call.key]

\* [command, run_prefix, scriptName], without run_prefix when it is empty.
ExpectedCommand ==
    IF config.run_prefix # ""
       THEN <<config.command, config.run_prefix, ScriptName>>
       ELSE <<config.command, ScriptName>>

\* get_test_command(t) is get_command("test", t); the yarn preset with the
\* default scripts gives ["yarn", "coverage:e2e"] for e2e.
TestCommandIsGetCommand ==
    /\ call.op = "get_test_command" =>
          /\ call.category = "test"
          /\ get_command(config, "test", call.key)
                = [err |-> call.err, cmd |-> call.cmd]
    /\ ( /\ call.op = "get_test_command"
         /\ call.key = "e2e"
         /\ cfg_found
         /\ cfg_data.package_manager = Some("yarn")
         /\ ~cfg_data.scripts.given )
       => call.cmd = <<"yarn", "coverage:e2e">>

\* C7 as stated: for every category present in `scripts` and every key
\* present in that category, get_command returns [command, run_prefix,
\* scriptName], or [command, scriptName] when run_prefix is empty.
C7_AsStated ==
    /\ (IsCommandCall /\ KeyPresent) =>
          /\ call.err = ""
          /\ call.cmd = ExpectedCommand
    /\ TestCommandIsGetCommand

\* C7 (amended): the same for every key whose script name is not empty; a
\* key whose script name is empty fails as an unknown script.
C7_GetCommand ==
    /\ (IsCommandCall /\ KeyPresent /\ ScriptName # "") =>
          /\ call.err = ""
          /\ call.cmd = ExpectedCommand
          /\ Len(call.cmd) = IF config.run_prefix = "" THEN 2 ELSE 3
    /\ (IsCommandCall /\ KeyPresent /\ ScriptName = "") =>
          /\ call.err = "Unknown script"
          /\ call.cmd = << >>
    /\ TestCommandIsGetCommand

\* The yarn preset: a command of two tokens, without a run prefix.
C7_Witness ==
    /\ call.op = "get_test_command"
    /\ call.key = "e2e"
    /\ config.run_prefix = ""
    /\ call.cmd = <<"yarn", "coverage:e2e">>

----------------------------------------------------------------------------
(* C8 *)

IsDiscoveryCall == call.op \in {"find_test_folder", "list_test_files"}

NothingReturned ==
    /\ call.err # ""
    /\ ~call.folder.given
    /\ call.files = << >>
    /\ call.cmd = << >>

\* The configured script table has a runnable entry for the key.
InScriptTable(k) ==
    /\ "test" \in DOMAIN config.scripts
    /\ k \in DOMAIN config.scripts["test"]
    /\ config.scripts["test"][k] # ""

\* C8 as stated: for every category outside {e2e, component}, discovery and
\* get_test_command all fail and return nothing, for every configuration.
C8_AsStated ==
    ( /\ IsDiscoveryCall \/ call.op = "get_test_command"
      /\ call.key \notin {"e2e", "component"} )
    => NothingReturned

\* C8 (amended): discovery fails for every category outside the folder-name
\* table, for every configuration; get_test_command fails exactly for the
\* categories that are no key (with a script name) of the configured
\* script table, which under the default table is every category outside
\* {e2e, component}; a category passes discovery only as a key of the
\* folder-name table and command lookup only as a key of the script table.
C8_UnknownCategory ==
    /\ (IsDiscoveryCall /\ call.key \notin {"e2e", "component"})
          => NothingReturned
    /\ call.op = "get_test_command" =>
          /\ (call.err = "") <=> InScriptTable(call.key)
          /\ call.err # "" => NothingReturned
    /\ ( /\ call.op = "get_test_command"
         /\ config.scripts = DefaultScripts
         /\ call.key \notin {"e2e", "component"} )
       => NothingReturned
    /\ (IsDiscoveryCall /\ call.err = "")
          => call.key \in DOMAIN TEST_FOLDERS
    /\ (call.op = "get_test_command" /\ call.err = "")
          => call.key \in DOMAIN config.scripts["test"]

\* Discovery of a category the overridden script table defines and the
\* folder-name table does not.
C8_Witness ==
    /\ call.op = "list_test_files"
    /\ call.key = "unit"
    /\ InScriptTable("unit")
    /\ call.err = "Unknown test type"

----------------------------------------------------------------------------
(* C9 *)

Loaded == cfg_pc \in {"loaded", "failed"}
PresetGiven ==
    /\ cfg_found
    /\ cfg_data.package_manager.given
    /\ cfg_data.package_manager.value \in {"npm", "yarn", "pnpm", "bun"}
Preset == PACKAGE_MANAGERS[cfg_data.package_manager.value]

\* The parts of C9 that do not depend on the preset's scripts.
LoadConfigOtherwise ==
    /\ ~cfg_found =>
          /\ config.ok
          /\ config.command = "npm"
          /\ config.run_prefix = "run"
          /\ config.scripts =
                [test |-> [component |-> "coverage:component",
                           e2e |-> "coverage:e2e"]]
    /\ PresetGiven =>
          /\ config.ok
          /\ config.command = Preset.command
          /\ config.run_prefix = Preset.run_prefix
    /\ (cfg_found /\ ~cfg_data.package_manager.given) =>
          /\ config.ok
          /\ config.command = IF cfg_data.command.given
                                 THEN cfg_data.command.value ELSE "npm"
          /\ config.run_prefix = IF cfg_data.run_prefix.given
                                    THEN cfg_data.run_prefix.value ELSE "run"
          /\ config.scripts = IF cfg_data.scripts.given
                                 THEN cfg_data.scripts.value
                                 ELSE DefaultScripts
    /\ (cfg_found /\ cfg_data.package_manager.given /\ ~PresetGiven) =>
          /\ cfg_pc = "failed"
          /\ ~config.ok

\* C9 as stated: with a preset, the scripts are the file's custom scripts
\* if given, the defaults otherwise.
C9_AsStated ==
    Loaded =>
        /\ LoadConfigOtherwise
        /\ PresetGiven =>
              config.scripts = IF cfg_data.scripts.given
                                  THEN cfg_data.scripts.value
                                  ELSE DefaultScripts

\* C9 (amended): with a preset, the scripts are the file's custom scripts
\* if given and not empty, the defaults otherwise.
C9_LoadConfig ==
    Loaded =>
        /\ LoadConfigOtherwise
        /\ PresetGiven =>
              config.scripts = IF /\ cfg_data.scripts.given
                                  /\ DOMAIN cfg_data.scripts.value # {}
                                  THEN cfg_data.scripts.value
                                  ELSE DefaultScripts

\* The yarn preset combined with custom scripts.
C9_Witness ==
    /\ cfg_pc = "loaded"
    /\ cfg_data.package_manager = Some("yarn")
    /\ cfg_data.scripts = Some([test |-> [e2e |-> "cy:e2e"]])
    /\ config.command = "yarn"
    /\ config.run_prefix = ""
    /\ config.scripts = [test |-> [e2e |-> "cy:e2e"]]

----------------------------------------------------------------------------
(* commands/test.py: the `test` command and TestRunnerApp *)

\* The configurations the command is run on.
CommandRunnerData ==
    { d \in RunnerData :
        /\ ~d.command.given
        /\ ~d.run_prefix.given
        /\ \/ d.package_manager = Some("yarn") /\ ~d.scripts.given
           \/ d.package_manager = Some("pip") /\ ~d.scripts.given
           \/ /\ ~d.package_manager.given
              /\ d.scripts \in { Some(EmptyDict),
                                 Some([build |-> [app |-> "build:app"]]),
                                 Some([test |-> [e2e |-> "cy:e2e"]]),
                                 Some([test |-> [unit |-> "test:unit",
                                                 e2e |-> ""]]) } }

\* The state in which `cyli test [--type T] [--dry-run] [--list-only]`
\* starts; sel_type "" is None.
Init ==
    /\ WalkIdle
    /\ RootIdle
    /\ \/ cfg_found = FALSE /\ cfg_data = NoRunnerData
       \/ cfg_found = TRUE /\ cfg_data \in CommandRunnerData
    /\ fs \in SampleFileSystems
    /\ config = ConfigError
    /\ cfg_pc = "init"
    /\ call = NoCall
    /\ pc = "start"
    /\ sel_type \in {"", "component", "e2e"}
    /\ dry_run \in BOOLEAN
    /\ list_only \in BOOLEAN
    /\ exec_exists \in BOOLEAN
    /\ exit_code = NoCode
    /\ exit_cause = ""
    /\ cancelled = FALSE
    /\ output = << >>
    /\ test_files = << >>
    /\ base_cmd = << >>
    /\ current_process = 0
    /\ worker = NoWorker
    /\ procs = << >>
    /\ selections = << >>
    /\ status_bar = ""
    /\ seen = {}

appVars == <<test_files, base_cmd, current_process, worker, procs,
             selections, status_bar, seen>>

\* raise SystemExit(code), a return from test(), or an uncaught ValueError
\* (the interpreter prints the traceback and exits with status 1).
Exit(code, cause) ==
    /\ pc' = "exited"
    /\ exit_code' = code
    /\ exit_cause' = cause

\* config.script_runner.scripts.get("test", {})
TestScripts(cfg) ==
    IF "test" \in DOMAIN cfg.scripts THEN cfg.scripts["test"] ELSE EmptyDict

\* As RunWithType, without the tests of list_only and dry_run.
RunWithTypeIgnoringFlags(cfg, t) ==
    LET test_scripts == TestScripts(cfg)
        found == get_test_files(t, fs)
        base == get_test_command(cfg, t)
    IN  /\ sel_type' = t
        /\ UNCHANGED <<current_process, worker, procs, selections, seen,
                       cancelled>>
        /\ IF t \notin DOMAIN test_scripts
              THEN /\ Exit(1, "unknown_type")
                   /\ UNCHANGED <<output, test_files, base_cmd, status_bar>>
           ELSE IF found.err # ""
              THEN /\ Exit(1, "ValueError")
                   /\ UNCHANGED <<output, test_files, base_cmd, status_bar>>
           ELSE IF found.files = << >>
              THEN /\ Exit(1, "no_files")
                   /\ UNCHANGED <<output, test_files, base_cmd, status_bar>>
           ELSE IF base.err # ""
              THEN /\ Exit(1, "ValueError")
                   /\ UNCHANGED <<output, test_files, base_cmd, status_bar>>
           ELSE /\ pc' = "runner"
                /\ test_files' = found.files
                /\ base_cmd' = Toks(base.cmd)
                /\ status_bar' = "Ready"
                /\ UNCHANGED <<output, exit_code, exit_cause>>

\* test(), from "Validate test type exists in config" to its end or to the
\* launch of the runner app.
RunWithType(cfg, t) ==
    LET test_scripts == TestScripts(cfg)
        found == get_test_files(t, fs)
        base == get_test_command(cfg, t)
    IN  /\ sel_type' = t
        /\ UNCHANGED <<current_process, worker, procs, selections, seen,
                       cancelled>>
        /\ IF t \notin DOMAIN test_scripts
              THEN /\ Exit(1, "unknown_type")
                   /\ UNCHANGED <<output, test_files, base_cmd, status_bar>>
           ELSE IF found.err # ""
              THEN /\ Exit(1, "ValueError")
                   /\ UNCHANGED <<output, test_files, base_cmd, status_bar>>
           ELSE IF list_only
              THEN /\ Exit(0, "list_only")
                   /\ output' = found.files
                   /\ UNCHANGED <<test_files, base_cmd, status_bar>>
           ELSE IF found.files = << >>
              THEN /\ Exit(1, "no_files")
                   /\ UNCHANGED <<output, test_files, base_cmd, status_bar>>
           ELSE IF base.err # ""
              THEN /\ Exit(1, "ValueError")
                   /\ UNCHANGED <<output, test_files, base_cmd, status_bar>>
           ELSE IF dry_run
              THEN /\ Exit(0, "dry_run")
                   /\ output' = DryRunCommand(Toks(base.cmd))
                   /\ UNCHANGED <<test_files, base_cmd, status_bar>>
           ELSE /\ pc' = "runner"
                /\ test_files' = found.files
                /\ base_cmd' = Toks(base.cmd)
                /\ status_bar' = "Ready"
                /\ UNCHANGED <<output, exit_code, exit_cause>>

\* test(): load the config, check the test scripts, and either prompt for
\* the test type or go on with the one given by --type.
TestStart ==
    /\ pc = "start"
    /\ LET cfg == load_config(cfg_found, cfg_data)
       IN  /\ config' = cfg
           /\ cfg_pc' = IF cfg.ok THEN "loaded" ELSE "failed"
           /\ IF ~cfg.ok
                 THEN /\ Exit(1, "ValueError")
                      /\ UNCHANGED <<sel_type, output, cancelled>>
                      /\ UNCHANGED appVars
              ELSE IF DOMAIN TestScripts(cfg) = {}
                 THEN /\ Exit(1, "no_scripts")
                      /\ UNCHANGED <<sel_type, output, cancelled>>
                      /\ UNCHANGED appVars
              ELSE IF sel_type = ""
                 THEN /\ pc' = "type_prompt"
                      /\ UNCHANGED <<sel_type, output, cancelled, exit_code,
                                     exit_cause>>
                      /\ UNCHANGED appVars
              ELSE RunWithType(cfg, sel_type)
    /\ UNCHANGED <<cfg_found, cfg_data, fs, call, dry_run, list_only,
                   exec_exists>>
    /\ UNCHANGED walkVars
    /\ UNCHANGED rootVars

\* TestTypeSelector.on_option_list_option_selected: the user picks one of
\* the configured types; test() goes on with it.
TypeSelected ==
    /\ pc = "type_prompt"
    /\ \E t \in DOMAIN TestScripts(config) : RunWithType(config, t)
    /\ UNCHANGED <<cfg_found, cfg_data, fs, config, cfg_pc, call, dry_run,
                   list_only, exec_exists>>
    /\ UNCHANGED walkVars
    /\ UNCHANGED rootVars

\* As TypeCancelled, with a cancelled prompt falling through to a default
\* type.
TypeCancelledFallsThrough ==
    /\ pc = "type_prompt"
    /\ cancelled' = TRUE
    /\ LET t == CHOOSE k \in DOMAIN TestScripts(config) : TRUE
       IN  /\ sel_type' = t
           /\ pc' = "runner"
           /\ test_files' = get_test_files(t, fs).files
           /\ base_cmd' = Toks(get_test_command(config, t).cmd)
    /\ UNCHANGED <<output, exit_code, exit_cause, current_process, worker,
                   procs, selections, status_bar, seen>>
    /\ UNCHANGED <<cfg_found, cfg_data, fs, config, cfg_pc, call, dry_run,
                   list_only, exec_exists>>
    /\ UNCHANGED walkVars
    /\ UNCHANGED rootVars

\* TestTypeSelector.action_quit (Escape): select_sel_type returns None and
\* test() raises SystemExit(0).
TypeCancelled ==
    /\ pc = "type_prompt"
    /\ cancelled' = TRUE
    /\ Exit(0, "type_cancelled")
    /\ UNCHANGED <<sel_type, output>>
    /\ UNCHANGED appVars
    /\ UNCHANGED <<cfg_found, cfg_data, fs, config, cfg_pc, call, dry_run,
                   list_only, exec_exists>>
    /\ UNCHANGED walkVars
    /\ UNCHANGED rootVars

----------------------------------------------------------------------------
(* TestRunnerApp *)

cmdFixed == <<cfg_found, cfg_data, fs, config, cfg_pc, call, dry_run,
              list_only, exec_exists, sel_type, output, test_files,
              base_cmd>>

\* What cancelling the worker's task leaves behind: CancelledError passes
\* `except Exception`, the `finally` clears current_process, and nothing
\* terminates the child the worker was reading from.
CancelWorker(w) ==
    IF w.state \in {"pending", "reading"}
       THEN [w EXCEPT !.state = "cancelled"] ELSE w

\* on_option_list_option_selected -> run_test: build the command and start
\* the worker with exclusive=True, which cancels the worker of the previous
\* selection.
OnOptionSelected ==
    /\ pc = "runner"
    /\ Len(selections) < MaxRuns
    /\ \E i \in 1 .. Len(test_files) :
          /\ selections' = Append(selections, test_files[i])
          /\ worker' = [state |-> "pending",
                        cmd |-> RunCommand(base_cmd, test_files[i]),
                        test_file |-> test_files[i], process |-> 0]
    /\ status_bar' = "Running"
    /\ current_process' = 0
    /\ UNCHANGED <<pc, exit_code, exit_cause, cancelled, procs, seen>>
    /\ UNCHANGED cmdFixed
    /\ UNCHANGED walkVars
    /\ UNCHANGED rootVars

NewProcess(w) ==
    [argv |-> w.cmd, file |-> w.test_file, alive |-> TRUE,
     returncode |-> NoCode, pending |-> 0, written |-> 0]

\* _run_command: asyncio.create_subprocess_exec succeeds and
\* self.current_process = process.
WorkerSpawn ==
    /\ pc = "runner"
    /\ worker.state = "pending"
    /\ exec_exists
    /\ procs' = Append(procs, NewProcess(worker))
    /\ current_process' = Len(procs) + 1
    /\ worker' = [worker EXCEPT !.state = "reading",
                                !.process = Len(procs) + 1]
    /\ UNCHANGED <<pc, exit_code, exit_cause, cancelled, selections,
                   status_bar, seen>>
    /\ UNCHANGED cmdFixed
    /\ UNCHANGED walkVars
    /\ UNCHANGED rootVars

\* _run_command: create_subprocess_exec raises FileNotFoundError; the error
\* is written to the log and the app goes on.
WorkerCommandNotFound ==
    /\ pc = "runner"
    /\ worker.state = "pending"
    /\ ~exec_exists
    /\ worker' = [worker EXCEPT !.state = "failed"]
    /\ status_bar' = "Error: Command not found"
    /\ seen' = seen \cup {"command_not_found"}
    /\ current_process' = 0
    /\ UNCHANGED <<pc, exit_code, exit_cause, cancelled, selections, procs>>
    /\ UNCHANGED cmdFixed
    /\ UNCHANGED walkVars
    /\ UNCHANGED rootVars

\* A running child writes a line to its stdout/stderr pipe.
ChildWrite ==
    /\ pc = "runner"
    /\ \E k \in 1 .. Len(procs) :
          /\ procs[k].alive
          /\ procs[k].written < MaxLines
          /\ procs' = [procs EXCEPT ![k].pending = @ + 1,
                                    ![k].written = @ + 1]
    /\ UNCHANGED <<pc, exit_code, exit_cause, cancelled, selections, worker,
                   current_process, status_bar, seen>>
    /\ UNCHANGED cmdFixed
    /\ UNCHANGED walkVars
    /\ UNCHANGED rootVars

\* A child exits on its own with some exit code; also a child whose worker
\* was cancelled, and also after the command has exited.
ChildExit ==
    /\ pc \in {"runner", "exited"}
    /\ \E k \in 1 .. Len(procs), rc \in ExitCodes :
          /\ procs[k].alive
          /\ procs' = [procs EXCEPT ![k].alive = FALSE,
                                    ![k].returncode = rc]
    /\ UNCHANGED <<pc, exit_code, exit_cause, cancelled, selections, worker,
                   current_process, status_bar, seen>>
    /\ UNCHANGED cmdFixed
    /\ UNCHANGED walkVars
    /\ UNCHANGED rootVars

\* _run_command: process.stdout.readline() returns a line, which is written
\* to the log.
WorkerReadLine ==
    /\ pc = "runner"
    /\ worker.state = "reading"
    /\ procs[worker.process].pending > 0
    /\ procs' = [procs EXCEPT ![worker.process].pending = @ - 1]
    /\ UNCHANGED <<pc, exit_code, exit_cause, cancelled, selections, worker,
                   current_process, status_bar, seen>>
    /\ UNCHANGED cmdFixed
    /\ UNCHANGED walkVars
    /\ UNCHANGED rootVars

\* _run_command: readline returns b"" at end of file, process.wait()
\* returns, the result is reported and `finally` clears current_process.
WorkerFinish ==
    /\ pc = "runner"
    /\ worker.state = "reading"
    /\ ~procs[worker.process].alive
    /\ procs[worker.process].pending = 0
    /\ worker' = [worker EXCEPT !.state = "finished"]
    /\ status_bar' = IF procs[worker.process].returncode = 0
                        THEN "passed" ELSE "failed"
    /\ seen' = seen \cup (IF procs[worker.process].returncode = 0
                             THEN {} ELSE {"test_failed"})
    /\ current_process' = 0
    /\ UNCHANGED <<pc, exit_code, exit_cause, cancelled, selections, procs>>
    /\ UNCHANGED cmdFixed
    /\ UNCHANGED walkVars
    /\ UNCHANGED rootVars

\* TestRunnerApp.action_quit (Escape or q): terminate current_process if
\* there is one, then exit the app; the app cancels its worker on the way
\* out, run_test_runner returns and test() returns (exit code 0).
ActionQuit ==
    /\ pc = "runner"
    /\ procs' = [k \in 1 .. Len(procs) |->
                   IF k = current_process /\ procs[k].alive
                      THEN [procs[k] EXCEPT !.alive = FALSE,
                                            !.returncode = -SIGTERM]
                      ELSE procs[k]]
    /\ worker' = CancelWorker(worker)
    /\ current_process' = 0
    /\ cancelled' = (selections = << >>)
    /\ Exit(0, "runner_quit")
    /\ UNCHANGED <<selections, status_bar, seen>>
    /\ UNCHANGED cmdFixed
    /\ UNCHANGED walkVars
    /\ UNCHANGED rootVars

Next ==
    \/ TestStart
    \/ TypeSelected
    \/ TypeCancelled
    \/ OnOptionSelected
    \/ WorkerSpawn
    \/ WorkerCommandNotFound
    \/ ChildWrite
    \/ ChildExit
    \/ WorkerReadLine
    \/ WorkerFinish
    \/ ActionQuit

Spec == Init /\ [][Next]_vars

----------------------------------------------------------------------------
(* C1 *)

\* The user cancelled a selection before any test file was selected.
CancelledBeforeSelection ==
    \/ cancelled
    \/ exit_cause = "type_cancelled"
    \/ exit_cause = "runner_quit" /\ selections = << >>

\* C1: when the user cancels the test-type selector, or quits the runner
\* app before selecting a test file, the command exits with code 0 and no
\* child process was spawned during the run.
C1_CancelExitsZero ==
    CancelledBeforeSelection =>
        /\ pc = "exited"
        /\ exit_code = 0
        /\ procs = << >>
        /\ worker.state = "none"

\* The runner app was launched and quit before any selection.
C1_Witness ==
    /\ pc = "exited"
    /\ exit_cause = "runner_quit"
    /\ cancelled
    /\ test_files # << >>
    /\ exit_code = 0
    /\ procs = << >>

----------------------------------------------------------------------------
(* C2 *)

Alive == {k \in 1 .. Len(procs) : procs[k].alive}

\* C2: at most one child process is alive at any time, also when a second
\* test file is selected while the first child is still running.
C2_AtMostOneChild == Cardinality(Alive) <= 1

----------------------------------------------------------------------------
(* C3 *)

\* C3: in every state where the program has exited, no child process it
\* spawned during the run is still alive.
C3_NoOrphanAtExit == pc = "exited" => Alive = {}

----------------------------------------------------------------------------
(* C4 *)

\* The last run ended, with a nonzero exit code of its child, and was
\* reported; the user then quit instead of running another file.
LastRunFailed ==
    /\ pc = "exited"
    /\ exit_cause = "runner_quit"
    /\ worker.state = "finished"
    /\ procs[worker.process].returncode # 0

\* C4: when a test run ends with a nonzero child exit code and the user
\* does not continue, the exit code of the `test` command is that child's
\* exit code.
C4_ExitCodePropagates ==
    LastRunFailed => exit_code = procs[worker.process].returncode

----------------------------------------------------------------------------
(* C5 *)

ConfigInvalid == ~config.ok \/ DOMAIN TestScripts(config) = {}

UnknownCategory ==
    /\ ~ConfigInvalid
    /\ sel_type # ""
    /\ \/ sel_type \notin DOMAIN TestScripts(config)
       \/ sel_type \notin DOMAIN TEST_FOLDERS

NoTestFiles ==
    /\ ~ConfigInvalid
    /\ sel_type # ""
    /\ ~UnknownCategory
    /\ get_test_files(sel_type, fs).files = << >>

\* C5, configuration and category: an invalid configuration and an unknown
\* category make the command exit with code 1, whatever the flags.
C5_ConfigAndCategoryExitOne ==
    (pc = "exited" /\ (ConfigInvalid \/ UnknownCategory)) => exit_code = 1

\* C5, discovery: no test files make the command exit with code 1,
\* whatever the flags.
C5_NoFilesExitsOne ==
    (pc = "exited" /\ NoTestFiles) => exit_code = 1

\* C5, executable: when the package manager's executable cannot be found,
\* the command exits with code 1.
C5_MissingExecutableExitsOne ==
    (pc = "exited" /\ "command_not_found" \in seen) => exit_code = 1

\* C5: the command exits with code 1 in each of the error cases, for every
\* combination of the flags.
C5_ErrorsExitOne ==
    /\ C5_ConfigAndCategoryExitOne
    /\ C5_NoFilesExitsOne
    /\ C5_MissingExecutableExitsOne

----------------------------------------------------------------------------
(* C6 *)

\* The argv of every child is base ++ ["--", "--", "--spec", file], with
\* base the configured test command.
ExecutedArgv ==
    \A k \in 1 .. Len(procs) :
        LET argv == procs[k].argv
            n == Len(base_cmd)
        IN  /\ base_cmd = Toks(get_test_command(config, sel_type).cmd)
            /\ Len(argv) = n + 4
            /\ SubSeq(argv, 1, n) = base_cmd
            /\ argv[n + 1] = Tok("--")
            /\ argv[n + 2] = Tok("--")
            /\ argv[n + 3] = Tok("--spec")
            /\ argv[n + 4] = PathTok(procs[k].file)
            /\ \E i \in 1 .. Len(selections) : selections[i] = procs[k].file

\* The line printed by --dry-run has, token for token, the argv a real run
\* of one of the discovered files executes.
DryRunIsExecutedArgv ==
    (pc = "exited" /\ exit_cause = "dry_run") =>
        LET files == get_test_files(sel_type, fs).files
        IN  \E i \in 1 .. Len(files) :
               output = RunCommand(Toks(get_test_command(config, sel_type).cmd),
                                   files[i])

\* C6: the executed argv is exactly base ++ ["--", "--", "--spec", file],
\* and the command printed in dry-run mode is token for token that argv.
C6_DryRunMatchesArgv == ExecutedArgv /\ DryRunIsExecutedArgv

----------------------------------------------------------------------------
(* utils/files.py: find_file_upwards *)

InitWalk ==
    /\ RootIdle
    /\ CfgIdle
    /\ CmdIdle
    /\ parent \in Trees
    /\ hasFile \in SUBSET Dirs
    /\ start_path \in Dirs
    /\ current = start_path
    /\ ff_pc = "loop"
    /\ ff_result = NotFound

\* One iteration of `while current != current.parent`.
FindFileStep ==
    /\ ff_pc = "loop"
    /\ current # parent[current]
    /\ IF current \in hasFile
          THEN /\ ff_result' = current
               /\ ff_pc' = "done"
               /\ UNCHANGED current
          ELSE /\ current' = parent[current]
               /\ UNCHANGED <<ff_result, ff_pc>>
    /\ UNCHANGED <<parent, hasFile, start_path>>
    /\ UNCHANGED rootVars
    /\ UNCHANGED cfgVars
    /\ UNCHANGED cmdVars

\* As FindFileRoot, with the check of the root left out.
FindFileRootUnchecked ==
    /\ ff_pc = "loop"
    /\ current = parent[current]
    /\ ff_result' = NotFound
    /\ ff_pc' = "done"
    /\ UNCHANGED <<parent, hasFile, start_path, current>>
    /\ UNCHANGED rootVars
    /\ UNCHANGED cfgVars
    /\ UNCHANGED cmdVars

\* The loop condition fails at the root; "Check root as well".
FindFileRoot ==
    /\ ff_pc = "loop"
    /\ current = parent[current]
    /\ ff_result' = IF current \in hasFile THEN current ELSE NotFound
    /\ ff_pc' = "done"
    /\ UNCHANGED <<parent, hasFile, start_path, current>>
    /\ UNCHANGED rootVars
    /\ UNCHANGED cfgVars
    /\ UNCHANGED cmdVars

NextWalk == FindFileStep \/ FindFileRoot

SpecWalk == InitWalk /\ [][NextWalk]_vars /\ WF_vars(NextWalk)

----------------------------------------------------------------------------
(* C10 *)

RECURSIVE Up(_, _)
\* The k-th directory on the chain start, parent(start), ...
Up(d, k) == IF k = 0 THEN d ELSE parent[Up(d, k - 1)]

\* The chain reaches the root within MaxDirs - 1 steps and stays there.
ChainIdx == 0 .. (MaxDirs - 1)

\* C10: when find_file_upwards returns, its result is the file of the
\* nearest directory on the chain start, parent(start), ..., root (both
\* ends included) that contains the file; it is not-found exactly when no
\* directory of the chain contains it.
FindFileNearest ==
    ff_pc = "done" =>
        /\ (ff_result = NotFound) <=>
               (\A k \in ChainIdx : Up(start_path, k) \notin hasFile)
        /\ ff_result # NotFound =>
               \E k \in ChainIdx :
                   /\ Up(start_path, k) = ff_result
                   /\ ff_result \in hasFile
                   /\ \A j \in 0 .. (k - 1) : Up(start_path, j) \notin hasFile

\* C10: the walk visits only directories of the chain, and it terminates.
C10_FindFileUpwards ==
    /\ [](FindFileNearest)
    /\ [](\E k \in ChainIdx : current = Up(start_path, k))
    /\ <>(ff_pc = "done")

\* The file is found in the root only, from a start two levels below it.
C10_Witness ==
    /\ ff_pc = "done"
    /\ ff_result = RootDir
    /\ start_path # RootDir
    /\ parent[start_path] # RootDir
    /\ hasFile = {RootDir}

----------------------------------------------------------------------------
(* utils/files.py: find_project_root *)

\* marker_files when the argument is None.
DefaultMarkers ==
    <<"package.json", "pyproject.toml", "setup.py", "Cargo.toml", "go.mod",
      ".git">>

\* The names a directory may hold, and the marker lists a caller passes.
EntryNames == {"package.json", ".git"}
MarkerLists == {None(<< >>), Some(<<".git">>), Some(<< >>)}

\* The list the loops run over.
Markers == Get(marker_files, DefaultMarkers)

\* As AnyMarker, testing the first marker of the list only.
FirstMarkerOnly(d) == Markers # << >> /\ Markers[1] \in entries[d]

\* for marker in marker_files: if (d / marker).exists()
AnyMarker(d) == \E i \in 1 .. Len(Markers) : Markers[i] \in entries[d]

InitRoot ==
    /\ CfgIdle
    /\ CmdIdle
    /\ parent \in Trees
    /\ hasFile = {}
    /\ start_path \in Dirs
    /\ current = RootDir
    /\ ff_pc = "idle"
    /\ ff_result = NotFound
    /\ entries \in [Dirs -> SUBSET EntryNames]
    /\ marker_files \in MarkerLists
    /\ pr_current = start_path
    /\ pr_pc = "loop"
    /\ pr_result = NotFound

\* One iteration of `while current != current.parent`.
FindRootStep ==
    /\ pr_pc = "loop"
    /\ pr_current # parent[pr_current]
    /\ IF AnyMarker(pr_current)
          THEN /\ pr_result' = pr_current
               /\ pr_pc' = "done"
               /\ UNCHANGED pr_current
          ELSE /\ pr_current' = parent[pr_current]
               /\ UNCHANGED <<pr_result, pr_pc>>
    /\ UNCHANGED <<entries, marker_files>>
    /\ UNCHANGED <<walkVars, cfgVars, cmdVars>>

\* The loop condition fails at the root; "Check root as well".
FindRootAtRoot ==
    /\ pr_pc = "loop"
    /\ pr_current = parent[pr_current]
    /\ pr_result' = IF AnyMarker(pr_current) THEN pr_current ELSE NotFound
    /\ pr_pc' = "done"
    /\ UNCHANGED <<entries, marker_files, pr_current>>
    /\ UNCHANGED <<walkVars, cfgVars, cmdVars>>

NextRoot == FindRootStep \/ FindRootAtRoot

SpecRoot == InitRoot /\ [][NextRoot]_vars

----------------------------------------------------------------------------
(* C11 *)

\* Directory d holds at least one marker of the set.
HoldsMarker(d) == \E m \in {Markers[i] : i \in 1 .. Len(Markers)} :
                      m \in entries[d]

\* C11: when find_project_root returns, its result is the nearest directory
\* on the chain start, parent(start), ..., root (both ends included) that
\* holds at least one marker, also when several directories of the chain
\* hold one; it is not-found exactly when no directory of the chain holds
\* any marker.
C11_FindProjectRoot ==
    pr_pc = "done" =>
        /\ (pr_result = NotFound) <=>
               (\A k \in ChainIdx : ~HoldsMarker(Up(start_path, k)))
        /\ pr_result # NotFound =>
               \E k \in ChainIdx :
                   /\ Up(start_path, k) = pr_result
                   /\ HoldsMarker(pr_result)
                   /\ \A j \in 0 .. (k - 1) : ~HoldsMarker(Up(start_path, j))

\* Two ancestors hold a marker, the nearer one by the last marker of the
\* default list only; the start holds none.
C11_Witness ==
    /\ pr_pc = "done"
    /\ ~marker_files.given
    /\ entries[start_path] = {}
    /\ parent[start_path] # RootDir
    /\ entries[parent[start_path]] = {".git"}
    /\ entries[RootDir] = {"package.json"}
    /\ pr_result = parent[start_path]

----------------------------------------------------------------------------
(* core/cypress.py, commands/test.py: the discovery of test files *)

\* The names of the directories below a scanned folder: "a" and "a-".
DirNames == { <<Chr.a>>, <<Chr.a, Chr.dash>> }

\* The entry `e` moved into the directory `dir` of the folder.
Below(dir, e) == [rel |-> <<dir>> \o e.rel, is_dir |-> e.is_dir]

\* What a test folder of cypress/ may hold: a.cy.ts, b.cy.js, a.cy.tsx,
\* b.cy.jsx and a.ts in the folder, a.cy.ts and b.cy.js in a directory of it,
\* and a directory named b.cy.ts.
TopFiles ==
    { F(StemA, TRUE, "ts"), F(StemB, TRUE, "js"), F(StemA, TRUE, "tsx"),
      F(StemB, TRUE, "jsx"), F(StemA, FALSE, "ts") }
FolderEntries ==
    TopFiles \cup { Below(d, f) : d \in DirNames,
                                  f \in { F(StemA, TRUE, "ts"),
                                          F(StemB, TRUE, "js") } }
             \cup { [rel |-> F(StemB, TRUE, "ts").rel, is_dir |-> TRUE] }

\* What src/ may hold.
SrcEntries ==
    { F(StemA, TRUE, "ts"), F(StemB, TRUE, "ts"), F(StemA, TRUE, "js"),
      F(StemA, TRUE, "tsx"), F(StemA, FALSE, "ts"),
      Below(<<Chr.a>>, F(StemA, TRUE, "ts")) }

Contents(U) == { S \in SUBSET U : Cardinality(S) <= MaxFiles }

\* cypress/e2e and cypress/component exist only below cypress/.
DiscoveryDirs ==
    { D \in SUBSET {CypressDir, E2eDir, ComponentDir, SrcDir} :
         (E2eDir \in D \/ ComponentDir \in D) => CypressDir \in D }

\* The file systems discovery runs on.  The two test folders hold the same
\* entries: no call reads both.
DiscoveryFileSystems ==
    { MkFS(FALSE, {}, {}, {}, {}) } \cup
    { MkFS(TRUE, D,
           IF E2eDir \in D THEN K ELSE {},
           IF ComponentDir \in D THEN K ELSE {},
           IF SrcDir \in D THEN S ELSE {}) :
         D \in DiscoveryDirs, K \in Contents(FolderEntries),
         S \in Contents(SrcEntries) }

InitDiscovery ==
    /\ WalkIdle
    /\ RootIdle
    /\ CmdIdle
    /\ cfg_found = FALSE
    /\ cfg_data = NoRunnerData
    /\ fs \in DiscoveryFileSystems
    /\ config = ConfigError
    /\ cfg_pc = "discover"
    /\ call = NoCall

\* list_test_files(test_type)
ListTestFiles ==
    /\ cfg_pc = "discover"
    /\ \E test_type \in TestTypes :
          LET r == list_test_files(test_type, fs)
          IN  call' = [NoCall EXCEPT !.op = "list_test_files",
                                     !.key = test_type,
                                     !.err = r.err, !.files = r.files]
    /\ UNCHANGED <<cfg_found, cfg_data, fs, config, cfg_pc>>
    /\ UNCHANGED walkVars
    /\ UNCHANGED rootVars
    /\ UNCHANGED cmdVars

\* list_src_test_files()
ListSrcTestFiles ==
    /\ cfg_pc = "discover"
    /\ call' = [NoCall EXCEPT !.op = "list_src_test_files",
                              !.files = list_src_test_files(fs)]
    /\ UNCHANGED <<cfg_found, cfg_data, fs, config, cfg_pc>>
    /\ UNCHANGED walkVars
    /\ UNCHANGED rootVars
    /\ UNCHANGED cmdVars

\* get_test_files(test_type)
GetTestFiles ==
    /\ cfg_pc = "discover"
    /\ \E test_type \in TestTypes :
          LET r == get_test_files(test_type, fs)
          IN  call' = [NoCall EXCEPT !.op = "get_test_files",
                                     !.key = test_type,
                                     !.err = r.err, !.files = r.files]
    /\ UNCHANGED <<cfg_found, cfg_data, fs, config, cfg_pc>>
    /\ UNCHANGED walkVars
    /\ UNCHANGED rootVars
    /\ UNCHANGED cmdVars

NextDiscovery ==
    \/ ListTestFiles
    \/ ListSrcTestFiles
    \/ GetTestFiles

SpecDiscovery == InitDiscovery /\ [][NextDiscovery]_vars

----------------------------------------------------------------------------
(* C12 *)

RECURSIVE PathString(_)
\* str(path) below the folder: the parts joined by "/".
PathString(parts) ==
    IF parts = << >> THEN << >>
    ELSE IF Len(parts) = 1 THEN parts[1]
    ELSE parts[1] \o <<Chr.slash>> \o PathString(Tail(parts))

\* The order of two paths as path strings.
StrLess(p, q) == SeqLess(PathString(p.rel), PathString(q.rel))

NameMatches(e) ==
    \E ext \in {"ts", "js", "tsx", "jsx"} : Matches(e.rel[Len(e.rel)], ext)

IsListCall == call.op = "list_test_files" /\ call.key \in DOMAIN TEST_FOLDERS

ListedFolder == <<CYPRESS_FOLDER, call.key>>

TestFolderPresent ==
    fs.root /\ CypressDir \in fs.dirs /\ ListedFolder \in fs.dirs

\* The regular files below the listed folder whose name matches.
MatchingFiles ==
    { FilePath(ListedFolder, e) :
         e \in { g \in fs.files[ListedFolder] : ~g.is_dir /\ NameMatches(g) } }

\* The files and the directories below the listed folder whose name matches.
MatchingEntries ==
    { FilePath(ListedFolder, e) :
         e \in { g \in Walk(fs.files[ListedFolder]) : NameMatches(g) } }

Listed == { call.files[i] : i \in 1 .. Len(call.files) }

----------------------------------------------------------------------------
(* C13 *)

IsGetCall(t) == call.op = "get_test_files" /\ call.key = t

FromSrc(p) == p.dir = SrcDir

\* The files of one group, of src/ or of the cypress folder, are ascending.
GroupSorted(in_src) ==
    \A i, j \in 1 .. Len(call.files) :
       /\ i < j
       /\ FromSrc(call.files[i]) = in_src
       /\ FromSrc(call.files[j]) = in_src
       => PathLess(call.files[i], call.files[j])

\* C13: for "component" get_test_files returns list_test_files("component")
\* followed by list_src_test_files(): every file of the cypress folder is
\* before every file of src/, and each group is sorted in itself; for "e2e"
\* it returns list_test_files("e2e") and no file of src/.
C13_GetTestFiles ==
    /\ IsGetCall("component") =>
          /\ call.err = ""
          /\ call.files = list_test_files("component", fs).files
                             \o list_src_test_files(fs)
          /\ \A i, j \in 1 .. Len(call.files) :
                i < j /\ FromSrc(call.files[i]) => FromSrc(call.files[j])
          /\ GroupSorted(TRUE)
          /\ GroupSorted(FALSE)
    /\ IsGetCall("e2e") =>
          /\ call.err = ""
          /\ call.files = list_test_files("e2e", fs).files
          /\ \A i \in 1 .. Len(call.files) : ~FromSrc(call.files[i])

\* A file of src/ is listed after a file of the cypress folder whose path
\* below its folder is the greater one.
C13_Witness ==
    /\ IsGetCall("component")
    /\ \E i, j \in 1 .. Len(call.files) :
          /\ i < j
          /\ ~FromSrc(call.files[i])
          /\ FromSrc(call.files[j])
          /\ PathLess(call.files[j], call.files[i])

----------------------------------------------------------------------------
(* C14 *)

\* The run reached the end of discovery: the config loaded, and the test
\* type is in its test scripts and is one discovery knows.
Discovered ==
    /\ pc = "exited"
    /\ config.ok
    /\ sel_type \in DOMAIN TestScripts(config)
    /\ sel_type \in DOMAIN TEST_FOLDERS

\* C14: in a run with --dry-run or --list-only the runner app is never
\* launched and no child process is spawned; with --list-only a run that
\* reaches the end of discovery prints the discovered files and exits with
\* code 0, whatever the lookup of the command would give.
C14_FlagsNeverRun ==
    /\ dry_run \/ list_only =>
          /\ pc # "runner"
          /\ exit_cause # "runner_quit"
          /\ status_bar = ""
          /\ selections = << >>
          /\ worker = NoWorker
          /\ current_process = 0
          /\ procs = << >>
    /\ list_only /\ Discovered =>
          /\ exit_code = 0
          /\ exit_cause = "list_only"
          /\ output = get_test_files(sel_type, fs).files

\* A run with --list-only printed the files it found, for a test type whose
\* command lookup fails.
C14_Witness ==
    /\ list_only
    /\ Discovered
    /\ exit_cause = "list_only"
    /\ output # << >>
    /\ get_test_command(config, sel_type).err # ""
    /\ procs = << >>

============================================================================
